---- MODULE Spec2Model ----
(***************************************************************************)
(* The item fetcher of the node (node/src/components/fetcher.rs): the      *)
(* responder table, the signal operation and the five events handled by    *)
(* Fetcher::handle_event, run by the single-threaded reactor one event at  *)
(* a time.  Storage, the network and the reactor's timer are the           *)
(* collaborators: a storage query issued by a Fetch is answered by one     *)
(* GetFromStorageResult, an armed timer produces one TimeoutPeer, and the  *)
(* network may deliver GotRemotely and AbsentRemotely at any time.         *)
(***************************************************************************)
EXTENDS Naturals, Sequences, FiniteSets

\* Number of Fetch events (hence of responders) in one run.
MaxResp == 2

\* Item identifiers (T::Id), peers (NodeId) and item contents.
Ids == {"H1", "H2"}
Peers == {"P1", "P2"}
Bodies == {"a"}

\* The items of kind T: an identifier together with the rest of the item.
Items == [id : Ids, body : Bodies]

\* Item::id: derives the identifier from an instance.
ItemId(item) == item.id

\* Option<X>: None is the empty sequence, Some(x) the one-element sequence.
None == <<>>
Some(x) == <<x>>
IsSome(o) == Len(o) = 1
Unwrap(o) == o[1]

\* FetchResult<T>.
FromStorage(item) == [tag |-> "FromStorage", item |-> item]
FromPeer(item, peer) == [tag |-> "FromPeer", item |-> item, peer |-> peer]

\* utils::Source.
SourcePeer(peer) == [tag |-> "Peer", peer |-> peer]
SourceClient == [tag |-> "Client"]
Sources == {SourcePeer(p) : p \in Peers} \cup {SourceClient}

VARIABLES
    responders,  \* Fetcher::responders: id -> peer -> sequence of responders
    reg,         \* reg[r]: the Fetch event that carried responder r
    queries,     \* storage queries issued and not yet answered, per (id, peer)
    timers,      \* timers armed and not yet fired, per (id, peer)
    delivered,   \* delivered[r]: the values responder r has been sent, in order
    last,        \* the event handled last and the effects its handler returned
    stale,       \* history kept by TimerSpec only: of the timers not yet fired,
                 \* those armed before the latest drain of their (id, peer) bucket
    tally,       \* history kept by TallySpec only: the GetRequests sent and the
                 \* timers armed so far, per (id, peer)
    chainspec,   \* the Chainspec under validation (ChainspecSpec only)
    validity     \* what Chainspec::is_valid returned for it, None before the call

vars == <<responders, reg, queries, timers, delivered, last, stale, tally, chainspec, validity>>

\* HashMap helpers.
EmptyMap == [k \in {} |-> <<>>]
MapRemove(m, k) == [x \in DOMAIN m \ {k} |-> m[x]]
MapInsert(m, k, v) == [x \in DOMAIN m \cup {k} |-> IF x = k THEN v ELSE m[x]]
MapGetOrDefault(m, k, d) == IF k \in DOMAIN m THEN m[k] ELSE d

\* The orders in which a HashMap with key set S may be iterated.
IterOrders(S) ==
    {o \in [1..Cardinality(S) -> S] : \A i, j \in 1..Cardinality(S) : o[i] = o[j] => i = j}

RECURSIVE Flatten(_)
Flatten(ss) == IF ss = <<>> THEN <<>> ELSE Head(ss) \o Flatten(Tail(ss))

\* The effects a handler returns: responder calls, messages sent, timers
\* armed and storage queries issued.
NoEffects == [signalled |-> <<>>, sent |-> <<>>, armed |-> <<>>, queried |-> <<>>]

\* The result is moved into the first respond call instead of cloned: the
\* other responders of the bucket are left with None.
RespondAll_MovesResult(bucket, value) ==
    [i \in 1..Len(bucket) |->
        [responder |-> bucket[i], value |-> IF i = 1 THEN value ELSE None]]

\* responder.respond(value) for each responder of a bucket, in the bucket's order.
RespondAll(bucket, value) == [i \in 1..Len(bucket) |-> [responder |-> bucket[i], value |-> value]]

\* signal's positive branch iterating over a copy of the entry: every
\* responder is signalled and the outer entry stays in the table.
SignalSome_KeepEntry(table, id, result, order) ==
    LET all_responders == MapGetOrDefault(table, id, EmptyMap)
    IN  [responders |-> table,
         effects |-> [NoEffects EXCEPT !.signalled =
             Flatten([i \in 1..Len(order) |-> RespondAll(all_responders[order[i]], result)])]]

\* signal's positive branch falling back on some other entry of the table
\* when id has none.
SignalSome_AnyEntry(table, id, result, order) ==
    LET key == IF id \in DOMAIN table \/ DOMAIN table = {}
               THEN id
               ELSE CHOOSE k \in DOMAIN table : TRUE
        all_responders == MapGetOrDefault(table, key, EmptyMap)
        ord == IF key = id THEN order ELSE CHOOSE o \in IterOrders(DOMAIN all_responders) : TRUE
    IN  [responders |-> MapRemove(table, key),
         effects |-> [NoEffects EXCEPT !.signalled =
             Flatten([i \in 1..Len(ord) |-> RespondAll(all_responders[ord[i]], result)])]]

\* ItemFetcher::signal, positive branch: every responder of every bucket.
SignalSome(table, id, result, order) ==
    LET all_responders == MapGetOrDefault(table, id, EmptyMap)
    IN  [responders |-> MapRemove(table, id),
         effects |-> [NoEffects EXCEPT !.signalled =
             Flatten([i \in 1..Len(order) |-> RespondAll(all_responders[order[i]], result)])]]

\* signal's negative branch without all_responders.remove(&peer): the bucket
\* is signalled and put back.
SignalNone_KeepBucket(table, id, peer) ==
    LET removed == MapGetOrDefault(MapGetOrDefault(table, id, EmptyMap), peer, <<>>)
    IN  [responders |-> table,
         effects |-> [NoEffects EXCEPT !.signalled = RespondAll(removed, None)]]

\* signal's negative branch without the is_empty test: the reduced inner
\* mapping is always put back.
SignalNone_AlwaysReinsert(table, id, peer) ==
    LET all_responders == MapGetOrDefault(table, id, EmptyMap)
        removed == MapGetOrDefault(all_responders, peer, <<>>)
        rest == MapRemove(all_responders, peer)
    IN  [responders |-> MapInsert(MapRemove(table, id), id, rest),
         effects |-> [NoEffects EXCEPT !.signalled = RespondAll(removed, None)]]

\* signal's negative branch without the re-insertion of the remaining buckets.
SignalNone_DropRest(table, id, peer) ==
    LET removed == MapGetOrDefault(MapGetOrDefault(table, id, EmptyMap), peer, <<>>)
    IN  [responders |-> MapRemove(table, id),
         effects |-> [NoEffects EXCEPT !.signalled = RespondAll(removed, None)]]

\* signal's negative branch re-inserting the remaining buckets only inside
\* the if-let that found a bucket for peer.
SignalNone_ReinsertOnlyIfRemoved(table, id, peer) ==
    LET all_responders == MapGetOrDefault(table, id, EmptyMap)
        removed == MapGetOrDefault(all_responders, peer, <<>>)
        rest == MapRemove(all_responders, peer)
    IN  [responders |-> IF peer \in DOMAIN all_responders /\ DOMAIN rest # {}
                        THEN MapInsert(MapRemove(table, id), id, rest)
                        ELSE MapRemove(table, id),
         effects |-> [NoEffects EXCEPT !.signalled = RespondAll(removed, None)]]

\* signal's negative branch popping one responder of the bucket instead of
\* removing the bucket.
SignalNone_FirstOnly(table, id, peer) ==
    LET all_responders == MapGetOrDefault(table, id, EmptyMap)
        bucket == MapGetOrDefault(all_responders, peer, <<>>)
        rest == IF Len(bucket) > 1
                THEN MapInsert(all_responders, peer, Tail(bucket))
                ELSE MapRemove(all_responders, peer)
    IN  [responders |-> IF DOMAIN rest # {}
                        THEN MapInsert(MapRemove(table, id), id, rest)
                        ELSE MapRemove(table, id),
         effects |-> [NoEffects EXCEPT !.signalled =
                        RespondAll(SubSeq(bucket, 1, IF bucket = <<>> THEN 0 ELSE 1), None)]]

\* signal's negative branch dropping the buckets of peer under every id.
SignalNone_AllIdsOfPeer(table, id, peer) ==
    LET ids == CHOOSE o \in IterOrders(DOMAIN table) : TRUE
        kept == {k \in DOMAIN table : DOMAIN MapRemove(table[k], peer) # {}}
    IN  [responders |-> [k \in kept |-> MapRemove(table[k], peer)],
         effects |-> [NoEffects EXCEPT !.signalled =
             Flatten([i \in 1..Len(ids) |->
                 RespondAll(MapGetOrDefault(table[ids[i]], peer, <<>>), None)])]]

\* signal's negative branch draining the bucket of peer in place: the Vec
\* stays in the inner map, empty.
SignalNone_DrainsInPlace(table, id, peer) ==
    LET all_responders == MapGetOrDefault(table, id, EmptyMap)
        removed == MapGetOrDefault(all_responders, peer, <<>>)
        rest == IF peer \in DOMAIN all_responders
                THEN MapInsert(all_responders, peer, <<>>)
                ELSE all_responders
    IN  [responders |-> IF DOMAIN rest # {}
                        THEN MapInsert(MapRemove(table, id), id, rest)
                        ELSE MapRemove(table, id),
         effects |-> [NoEffects EXCEPT !.signalled = RespondAll(removed, None)]]

\* ItemFetcher::signal, negative branch: the bucket of peer only.
SignalNone(table, id, peer) ==
    LET all_responders == MapGetOrDefault(table, id, EmptyMap)
        removed == MapGetOrDefault(all_responders, peer, <<>>)
        rest == MapRemove(all_responders, peer)
    IN  [responders |-> IF DOMAIN rest # {}
                        THEN MapInsert(MapRemove(table, id), id, rest)
                        ELSE MapRemove(table, id),
         effects |-> [NoEffects EXCEPT !.signalled = RespondAll(removed, None)]]

\* signal treating a positive result like a negative one: only the bucket of
\* peer is resolved.
Signal_PeerScoped(table, id, result, peer, order) ==
    LET all_responders == MapGetOrDefault(table, id, EmptyMap)
        removed == MapGetOrDefault(all_responders, peer, <<>>)
        rest == MapRemove(all_responders, peer)
    IN  [responders |-> IF DOMAIN rest # {}
                        THEN MapInsert(MapRemove(table, id), id, rest)
                        ELSE MapRemove(table, id),
         effects |-> [NoEffects EXCEPT !.signalled = RespondAll(removed, result)]]

\* signal returning early, for a positive result too, when peer has no bucket
\* under id.
Signal_RequiresPeerBucket(table, id, result, peer, order) ==
    IF peer \notin DOMAIN MapGetOrDefault(table, id, EmptyMap)
    THEN [responders |-> table, effects |-> NoEffects]
    ELSE IF IsSome(result)
         THEN SignalSome(table, id, result, order)
         ELSE SignalNone(table, id, peer)

\* ItemFetcher::signal.  order is the iteration order of the removed inner map.
Signal(table, id, result, peer, order) ==
    IF IsSome(result)
    THEN SignalSome(table, id, result, order)
    ELSE SignalNone(table, id, peer)

\* ItemFetcher::get_from_storage (the same for Deploy, Block and BlockByHeight):
\* one storage request whose answer comes back as GetFromStorageResult { id, peer, _ }.
GetFromStorage(id, peer) == [NoEffects EXCEPT !.queried = <<<<id, peer>>>>]

\* fetch asking the peer at once, beside the storage query.
FetchItem_ContactsPeer(table, id, peer, responder) ==
    LET inner == MapGetOrDefault(table, id, EmptyMap)
        bucket == MapGetOrDefault(inner, peer, <<>>)
    IN  [responders |-> MapInsert(table, id, MapInsert(inner, peer, Append(bucket, responder))),
         effects |-> [GetFromStorage(id, peer) EXCEPT !.sent = <<<<peer, id>>>>,
                                                      !.armed = <<<<id, peer>>>>]]

\* fetch inserting the responder at the front of the bucket.
FetchItem_Prepends(table, id, peer, responder) ==
    LET inner == MapGetOrDefault(table, id, EmptyMap)
        bucket == MapGetOrDefault(inner, peer, <<>>)
    IN  [responders |-> MapInsert(table, id, MapInsert(inner, peer, <<responder>> \o bucket)),
         effects |-> GetFromStorage(id, peer)]

\* fetch querying storage only for the first responder of a bucket.
FetchItem_Dedupes(table, id, peer, responder) ==
    LET inner == MapGetOrDefault(table, id, EmptyMap)
        bucket == MapGetOrDefault(inner, peer, <<>>)
    IN  [responders |-> MapInsert(table, id, MapInsert(inner, peer, Append(bucket, responder))),
         effects |-> IF bucket = <<>> THEN GetFromStorage(id, peer) ELSE NoEffects]

\* ItemFetcher::fetch: capture the responder, then get_from_storage.
FetchItem(table, id, peer, responder) ==
    LET inner == MapGetOrDefault(table, id, EmptyMap)
        bucket == MapGetOrDefault(inner, peer, <<>>)
    IN  [responders |-> MapInsert(table, id, MapInsert(inner, peer, Append(bucket, responder))),
         effects |-> GetFromStorage(id, peer)]

\* got_from_storage reporting the nominated peer as the provenance.
GotFromStorage_FromPeer(table, item, peer, order) ==
    Signal(table, ItemId(item), Some(FromPeer(item, peer)), peer, order)

\* ItemFetcher::got_from_storage.
GotFromStorage(table, item, peer, order) ==
    Signal(table, ItemId(item), Some(FromStorage(item)), peer, order)

\* failed_to_get_from_storage without the set_timeout effect.
FailedToGetFromStorage_NoTimer(table, id, peer, ok) ==
    IF ok
    THEN [responders |-> table, effects |-> [NoEffects EXCEPT !.sent = <<<<peer, id>>>>]]
    ELSE Signal(table, id, None, peer, <<>>)

\* failed_to_get_from_storage whose timer effect replaces the send effect
\* instead of extending it.
FailedToGetFromStorage_NoSend(table, id, peer, ok) ==
    IF ok
    THEN [responders |-> table, effects |-> [NoEffects EXCEPT !.armed = <<<<id, peer>>>>]]
    ELSE Signal(table, id, None, peer, <<>>)

\* failed_to_get_from_storage arming the timer before it looks at the
\* outcome of the message construction.
FailedToGetFromStorage_AlwaysArms(table, id, peer, ok) ==
    IF ok
    THEN [responders |-> table,
          effects |-> [NoEffects EXCEPT !.sent = <<<<peer, id>>>>, !.armed = <<<<id, peer>>>>]]
    ELSE LET out == Signal(table, id, None, peer, <<>>)
         IN  [out EXCEPT !.effects.armed = <<<<id, peer>>>>]

\* failed_to_get_from_storage ignoring a failed message construction.
FailedToGetFromStorage_DropsFailure(table, id, peer, ok) ==
    IF ok
    THEN [responders |-> table,
          effects |-> [NoEffects EXCEPT !.sent = <<<<peer, id>>>>, !.armed = <<<<id, peer>>>>]]
    ELSE [responders |-> table, effects |-> NoEffects]

\* failed_to_get_from_storage contacting the peer only while the bucket of
\* (id, peer) still holds a responder.
FailedToGetFromStorage_ChecksTable(table, id, peer, ok) ==
    IF peer \notin DOMAIN MapGetOrDefault(table, id, EmptyMap)
    THEN [responders |-> table, effects |-> NoEffects]
    ELSE IF ok
         THEN [responders |-> table,
               effects |-> [NoEffects EXCEPT !.sent = <<<<peer, id>>>>,
                                             !.armed = <<<<id, peer>>>>]]
         ELSE Signal(table, id, None, peer, <<>>)

\* failed_to_get_from_storage sending the request always but arming the timer
\* only while the bucket of (id, peer) still holds a responder.
FailedToGetFromStorage_ArmsIfPending(table, id, peer, ok) ==
    IF ok
    THEN [responders |-> table,
          effects |-> [NoEffects EXCEPT
                          !.sent = <<<<peer, id>>>>,
                          !.armed = IF peer \in DOMAIN MapGetOrDefault(table, id, EmptyMap)
                                    THEN <<<<id, peer>>>> ELSE <<>>]]
    ELSE Signal(table, id, None, peer, <<>>)

\* ItemFetcher::failed_to_get_from_storage.  ok: Message::new_get_request succeeded.
FailedToGetFromStorage(table, id, peer, ok) ==
    IF ok
    THEN [responders |-> table,
          effects |-> [NoEffects EXCEPT !.sent = <<<<peer, id>>>>, !.armed = <<<<id, peer>>>>]]
    ELSE Signal(table, id, None, peer, <<>>)

\* The iteration orders of the inner map of id.
BucketOrders(table, id) == IterOrders(DOMAIN MapGetOrDefault(table, id, EmptyMap))

\* handle_event with the Source::Client arm resolving the fetches of the item
\* as if storage had supplied it.
HandleEvent_ClientResolves(table, event, order) ==
    CASE event.kind = "Fetch" ->
           FetchItem(table, event.id, event.peer, event.responder)
      [] event.kind = "GetFromStorageResult" ->
           IF IsSome(event.maybe_item)
           THEN GotFromStorage(table, Unwrap(event.maybe_item), event.peer, order)
           ELSE FailedToGetFromStorage(table, event.id, event.peer, event.ok)
      [] event.kind = "GotRemotely" ->
           IF event.source.tag = "Peer"
           THEN Signal(table, ItemId(event.item),
                       Some(FromPeer(event.item, event.source.peer)), event.source.peer, order)
           ELSE SignalSome(table, ItemId(event.item), Some(FromStorage(event.item)),
                           CHOOSE o \in BucketOrders(table, ItemId(event.item)) : TRUE)
      [] event.kind = "AbsentRemotely" -> Signal(table, event.id, None, event.peer, order)
      [] event.kind = "TimeoutPeer" -> Signal(table, event.id, None, event.peer, order)

\* handle_event with an AbsentRemotely arm that returns no effects.
HandleEvent_AbsentIgnored(table, event, order) ==
    CASE event.kind = "Fetch" ->
           FetchItem(table, event.id, event.peer, event.responder)
      [] event.kind = "GetFromStorageResult" ->
           IF IsSome(event.maybe_item)
           THEN GotFromStorage(table, Unwrap(event.maybe_item), event.peer, order)
           ELSE FailedToGetFromStorage(table, event.id, event.peer, event.ok)
      [] event.kind = "GotRemotely" ->
           IF event.source.tag = "Peer"
           THEN Signal(table, ItemId(event.item),
                       Some(FromPeer(event.item, event.source.peer)), event.source.peer, order)
           ELSE [responders |-> table, effects |-> NoEffects]
      [] event.kind = "AbsentRemotely" -> [responders |-> table, effects |-> NoEffects]
      [] event.kind = "TimeoutPeer" -> Signal(table, event.id, None, event.peer, order)

\* Fetcher::handle_event.  The field ok of a GetFromStorageResult event says
\* whether Message::new_get_request succeeds for the event's id; order is the
\* order in which signal iterates over the inner map it removed.
HandleEvent(table, event, order) ==
    CASE event.kind = "Fetch" ->
           FetchItem(table, event.id, event.peer, event.responder)
      [] event.kind = "GetFromStorageResult" ->
           IF IsSome(event.maybe_item)
           THEN GotFromStorage(table, Unwrap(event.maybe_item), event.peer, order)
           ELSE FailedToGetFromStorage(table, event.id, event.peer, event.ok)
      [] event.kind = "GotRemotely" ->
           IF event.source.tag = "Peer"
           THEN Signal(table, ItemId(event.item),
                       Some(FromPeer(event.item, event.source.peer)), event.source.peer, order)
           ELSE [responders |-> table, effects |-> NoEffects]
      [] event.kind = "AbsentRemotely" -> Signal(table, event.id, None, event.peer, order)
      [] event.kind = "TimeoutPeer" -> Signal(table, event.id, None, event.peer, order)

\* The iteration orders open to the handler of event.
EventOrders(table, event) ==
    CASE event.kind = "GetFromStorageResult" /\ IsSome(event.maybe_item) ->
           BucketOrders(table, ItemId(Unwrap(event.maybe_item)))
      [] event.kind = "GotRemotely" /\ event.source.tag = "Peer" ->
           BucketOrders(table, ItemId(event.item))
      [] OTHER -> {<<>>}

\* ConsensusProtocolName and the TimeDiff values (milliseconds) of the
\* settings that is_valid compares.
ConsensusProtocolNames == {"Highway", "Zug"}
TimeDiffs == {0, 7, 8}
Delays == {1, 2}

\* The settings of a Chainspec that is_valid reads.  largest_message_fits:
\* the largest serialized message plus the safety margin does not exceed
\* network_config.maximum_net_message_size.  The last four fields are the
\* outcomes of the is_valid methods of the four sub-configurations.
Chainspecs ==
    [largest_message_fits : BOOLEAN,
     unbonding_delay : Delays,
     auction_delay : Delays,
     consensus_protocol : ConsensusProtocolNames,
     minimum_block_time : TimeDiffs,
     maximum_round_length : TimeDiffs,
     highway_config_is_valid : BOOLEAN,
     protocol_config_is_valid : BOOLEAN,
     core_config_is_valid : BOOLEAN,
     deploy_config_is_valid : BOOLEAN]

\* A valid chainspec, as the one loaded from the resources "local".
LocalChainspec ==
    [largest_message_fits |-> TRUE,
     unbonding_delay |-> 2,
     auction_delay |-> 1,
     consensus_protocol |-> "Highway",
     minimum_block_time |-> 7,
     maximum_round_length |-> 8,
     highway_config_is_valid |-> TRUE,
     protocol_config_is_valid |-> TRUE,
     core_config_is_valid |-> TRUE,
     deploy_config_is_valid |-> TRUE]

\* is_valid rejecting a minimum_block_time equal to maximum_round_length.
IsValid_StrictRoundLength(self) ==
    IF ~self.largest_message_fits THEN FALSE
    ELSE IF self.unbonding_delay <= self.auction_delay THEN FALSE
    ELSE IF /\ self.consensus_protocol = "Highway"
            /\ self.minimum_block_time >= self.maximum_round_length THEN FALSE
    ELSE IF self.consensus_protocol = "Highway" /\ ~self.highway_config_is_valid THEN FALSE
    ELSE /\ self.protocol_config_is_valid
         /\ self.core_config_is_valid
         /\ self.deploy_config_is_valid

\* Chainspec::is_valid, check by check in the order of the code.  The check
\* of era_duration only logs a warning.
IsValid(self) ==
    IF ~self.largest_message_fits THEN FALSE
    ELSE IF self.unbonding_delay <= self.auction_delay THEN FALSE
    ELSE IF /\ self.consensus_protocol = "Highway"
            /\ self.minimum_block_time > self.maximum_round_length THEN FALSE
    ELSE IF self.consensus_protocol = "Highway" /\ ~self.highway_config_is_valid THEN FALSE
    ELSE /\ self.protocol_config_is_valid
         /\ self.core_config_is_valid
         /\ self.deploy_config_is_valid

\* Counting maps over (id, peer).
Keys == Ids \X Peers
RECURSIVE AddAll(_, _)
AddAll(count, ks) ==
    IF ks = <<>> THEN count
    ELSE AddAll([count EXCEPT ![Head(ks)] = @ + 1], Tail(ks))

\* The responder calls of a handler reach their responders.
RECURSIVE Deliver(_, _)
Deliver(d, signalled) ==
    IF signalled = <<>> THEN d
    ELSE Deliver([d EXCEPT ![Head(signalled).responder] = Append(@, Head(signalled).value)],
                 Tail(signalled))

\* The reactor hands event to handle_event, which runs to completion, and
\* then carries out the effects it returned.  q and t are the storage queries
\* and timers outstanding once the event has been taken.
Handle(event, q, t) ==
    \E order \in EventOrders(responders, event) :
      \E out \in {HandleEvent(responders, event, order)} :
            /\ responders' = out.responders
            /\ delivered' = Deliver(delivered, out.effects.signalled)
            /\ queries' = AddAll(q, out.effects.queried)
            /\ timers' = AddAll(t, out.effects.armed)
            /\ last' = [event |-> event, effects |-> out.effects]

Init ==
    /\ responders = EmptyMap
    /\ reg = <<>>
    /\ queries = [k \in Keys |-> 0]
    /\ timers = [k \in Keys |-> 0]
    /\ delivered = [r \in 1..MaxResp |-> <<>>]
    /\ last = [event |-> [kind |-> "Init"], effects |-> NoEffects]
    /\ stale = [k \in Keys |-> 0]
    /\ tally = [sent |-> [k \in Keys |-> 0], armed |-> [k \in Keys |-> 0]]
    /\ chainspec = LocalChainspec
    /\ validity = None

\* Event::Fetch { id, peer, responder }, from another component of the node;
\* every Fetch carries a responder of its own.
Fetch(id, peer) ==
    /\ Len(reg) < MaxResp
    /\ Handle([kind |-> "Fetch", id |-> id, peer |-> peer, responder |-> Len(reg) + 1],
              queries, timers)
    /\ reg' = Append(reg, [id |-> id, peer |-> peer])

\* Event::GetFromStorageResult { id, peer, maybe_item }: the answer to a
\* storage query for id, which is the item stored under id or nothing.
GetFromStorageResult(id, peer, maybe_item, ok) ==
    /\ queries[<<id, peer>>] > 0
    /\ IsSome(maybe_item) => ItemId(Unwrap(maybe_item)) = id /\ ok
    /\ Handle([kind |-> "GetFromStorageResult", id |-> id, peer |-> peer,
               maybe_item |-> maybe_item, ok |-> ok],
              [queries EXCEPT ![<<id, peer>>] = @ - 1], timers)
    /\ UNCHANGED reg

\* Event::GotRemotely { item, source }: any item may arrive from any source.
GotRemotely(item, source) ==
    /\ Handle([kind |-> "GotRemotely", item |-> item, source |-> source], queries, timers)
    /\ UNCHANGED reg

\* Event::AbsentRemotely { id, peer }: any peer may disclaim any id.
AbsentRemotely(id, peer) ==
    /\ Handle([kind |-> "AbsentRemotely", id |-> id, peer |-> peer], queries, timers)
    /\ UNCHANGED reg

\* Event::TimeoutPeer { id, peer }: produced by a timer armed for (id, peer).
TimeoutPeer(id, peer) ==
    /\ timers[<<id, peer>>] > 0
    /\ Handle([kind |-> "TimeoutPeer", id |-> id, peer |-> peer],
              queries, [timers EXCEPT ![<<id, peer>>] = @ - 1])
    /\ UNCHANGED reg

Next ==
    \/ \E id \in Ids, peer \in Peers : Fetch(id, peer) /\ UNCHANGED <<stale, tally, chainspec, validity>>
    \/ \E id \in Ids, peer \in Peers, maybe_item \in {None} \cup {Some(i) : i \in Items},
          ok \in BOOLEAN : GetFromStorageResult(id, peer, maybe_item, ok) /\ UNCHANGED <<stale, tally, chainspec, validity>>
    \/ \E item \in Items, source \in Sources : GotRemotely(item, source) /\ UNCHANGED <<stale, tally, chainspec, validity>>
    \/ \E id \in Ids, peer \in Peers : AbsentRemotely(id, peer) /\ UNCHANGED <<stale, tally, chainspec, validity>>
    \/ \E id \in Ids, peer \in Peers : TimeoutPeer(id, peer) /\ UNCHANGED <<stale, tally, chainspec, validity>>

Spec == Init /\ [][Next]_vars

\* Timers are never cancelled (set_timeout returns no handle that is kept):
\* when the step just taken removed the bucket of (id, peer), every timer still
\* armed for (id, peer) was armed before that drain.  s counts the older ones
\* once the event has been taken.
Restale(s) ==
    [k \in Keys |->
        IF /\ k[1] \in DOMAIN responders /\ k[2] \in DOMAIN responders[k[1]]
           /\ ~(k[1] \in DOMAIN responders' /\ k[2] \in DOMAIN responders'[k[1]])
        THEN timers'[k]
        ELSE s[k]]

\* The same events, with the history of the timers followed.  All timers run
\* for peer_timeout, so of the timers of one (id, peer) the oldest fires first.
TimerNext ==
    \/ \E id \in Ids, peer \in Peers : Fetch(id, peer) /\ stale' = Restale(stale) /\ UNCHANGED <<tally, chainspec, validity>>
    \/ \E id \in Ids, peer \in Peers, maybe_item \in {None} \cup {Some(i) : i \in Items},
          ok \in BOOLEAN :
            GetFromStorageResult(id, peer, maybe_item, ok) /\ stale' = Restale(stale) /\ UNCHANGED <<tally, chainspec, validity>>
    \/ \E item \in Items, source \in Sources :
            GotRemotely(item, source) /\ stale' = Restale(stale) /\ UNCHANGED <<tally, chainspec, validity>>
    \/ \E id \in Ids, peer \in Peers : AbsentRemotely(id, peer) /\ stale' = Restale(stale) /\ UNCHANGED <<tally, chainspec, validity>>
    \/ \E id \in Ids, peer \in Peers :
            /\ TimeoutPeer(id, peer)
            /\ stale' = Restale([stale EXCEPT ![<<id, peer>>] = IF @ > 0 THEN @ - 1 ELSE 0])
            /\ UNCHANGED <<tally, chainspec, validity>>

TimerSpec == Init /\ [][TimerNext]_vars

\* The GetRequests sent and the timers armed so far, once the effects of the
\* step just taken are counted.  A send effect is (peer, id), a timer (id, peer).
Retally(t) ==
    [sent |-> AddAll(t.sent, [i \in DOMAIN last'.effects.sent |->
                                 <<last'.effects.sent[i][2], last'.effects.sent[i][1]>>]),
     armed |-> AddAll(t.armed, last'.effects.armed)]

\* The same events, with the sent requests and armed timers counted.
TallyNext ==
    \/ \E id \in Ids, peer \in Peers :
            Fetch(id, peer) /\ tally' = Retally(tally) /\ UNCHANGED <<stale, chainspec, validity>>
    \/ \E id \in Ids, peer \in Peers, maybe_item \in {None} \cup {Some(i) : i \in Items},
          ok \in BOOLEAN :
            /\ GetFromStorageResult(id, peer, maybe_item, ok)
            /\ tally' = Retally(tally) /\ UNCHANGED <<stale, chainspec, validity>>
    \/ \E item \in Items, source \in Sources :
            /\ GotRemotely(item, source)
            /\ tally' = Retally(tally) /\ UNCHANGED <<stale, chainspec, validity>>
    \/ \E id \in Ids, peer \in Peers :
            /\ AbsentRemotely(id, peer)
            /\ tally' = Retally(tally) /\ UNCHANGED <<stale, chainspec, validity>>
    \/ \E id \in Ids, peer \in Peers :
            /\ TimeoutPeer(id, peer)
            /\ tally' = Retally(tally) /\ UNCHANGED <<stale, chainspec, validity>>

TallySpec == Init /\ [][TallyNext]_vars

\* The collaborators' guarantees: every storage query issued is answered and
\* every armed timer fires.
Fairness ==
    \A id \in Ids, peer \in Peers :
        /\ WF_vars(\E maybe_item \in {None} \cup {Some(i) : i \in Items}, ok \in BOOLEAN :
                      GetFromStorageResult(id, peer, maybe_item, ok) /\ UNCHANGED <<stale, tally, chainspec, validity>>)
        /\ WF_vars(TimeoutPeer(id, peer) /\ UNCHANGED <<stale, tally, chainspec, validity>>)

LiveSpec == Init /\ [][Next]_vars /\ Fairness

\* Validation of a chainspec: any chainspec may be loaded, and is_valid is
\* called on it once.  The fetcher is left as constructed.
ChainspecInit ==
    /\ responders = EmptyMap
    /\ reg = <<>>
    /\ queries = [k \in Keys |-> 0]
    /\ timers = [k \in Keys |-> 0]
    /\ delivered = [r \in 1..MaxResp |-> <<>>]
    /\ last = [event |-> [kind |-> "Init"], effects |-> NoEffects]
    /\ stale = [k \in Keys |-> 0]
    /\ tally = [sent |-> [k \in Keys |-> 0], armed |-> [k \in Keys |-> 0]]
    /\ chainspec \in Chainspecs
    /\ validity = None

Validate ==
    /\ validity = None
    /\ validity' = Some(IsValid(chainspec))
    /\ UNCHANGED <<responders, reg, queries, timers, delivered, last, stale, tally, chainspec>>

ChainspecNext == Validate

ChainspecSpec == ChainspecInit /\ [][ChainspecNext]_vars

----------------------------------------------------------------------------
\* Vocabulary of the properties.

Responders == 1..MaxResp
Registered(r) == r <= Len(reg)
Signalled(r) == delivered[r] # <<>>
Bucket(table, id, peer) == MapGetOrDefault(MapGetOrDefault(table, id, EmptyMap), peer, <<>>)
BucketPeers(table, id) == DOMAIN MapGetOrDefault(table, id, EmptyMap)
Range(s) == {s[i] : i \in DOMAIN s}
Under(table, id) == UNION {Range(Bucket(table, id, p)) : p \in BucketPeers(table, id)}
Occurrences(r) ==
    Cardinality({<<id, p, i>> \in Ids \X Peers \X (1..MaxResp) :
                    i \in DOMAIN Bucket(responders, id, p) /\ Bucket(responders, id, p)[i] = r})
SignalledBy(effects) == {effects.signalled[i].responder : i \in DOMAIN effects.signalled}

\* C1: every responder carried by a handled Fetch is eventually signalled,
\* provided storage queries are answered and armed timers fire.
C1_EventuallySignalled == \A r \in Responders : Registered(r) ~> Signalled(r)

\* A responder has been signalled None by the timer armed after a storage miss.
C1_Witness ==
    /\ last.event.kind = "TimeoutPeer"
    /\ \E r \in Responders : Registered(r) /\ delivered[r] = <<None>>

\* C2: no responder is signalled more than once, and a responder is in the
\* table (once) exactly from its Fetch until it is signalled.
C2_SingleDelivery ==
    \A r \in Responders :
        /\ Len(delivered[r]) <= 1
        /\ Occurrences(r) = (IF Registered(r) /\ ~Signalled(r) THEN 1 ELSE 0)

\* A later resolution for an id whose responder was already signalled reached
\* no responder.
C2_Witness ==
    /\ last.event.kind \in {"TimeoutPeer", "AbsentRemotely", "GotRemotely"}
    /\ last.effects.signalled = <<>>
    /\ last.event.kind = "GotRemotely" => last.event.source.tag = "Peer"
    /\ \E r \in Responders :
         /\ Registered(r) /\ Signalled(r)
         /\ reg[r].id = (IF last.event.kind = "GotRemotely" THEN ItemId(last.event.item)
                         ELSE last.event.id)

\* C3: no outer entry of the responder table has an empty inner mapping.
C3_NoEmptyInner == \A id \in DOMAIN responders : DOMAIN responders[id] # {}

\* The last bucket of an id was drained by a negative resolution and the
\* outer entry is gone.
C3_Witness ==
    /\ last.event.kind \in {"TimeoutPeer", "AbsentRemotely"}
    /\ last.effects.signalled # <<>>
    /\ last.event.id \notin DOMAIN responders

----------------------------------------------------------------------------
\* The step just taken, by the event it handled (last') and the table it
\* found (responders).

StorageHit ==
    last'.event.kind = "GetFromStorageResult" /\ IsSome(last'.event.maybe_item)
StorageMiss ==
    last'.event.kind = "GetFromStorageResult" /\ ~IsSome(last'.event.maybe_item)
PeerHit == last'.event.kind = "GotRemotely" /\ last'.event.source.tag = "Peer"
AllValues(effects, v) == \A i \in DOMAIN effects.signalled : effects.signalled[i].value = v
OncePerResponder(effects) == Len(effects.signalled) = Cardinality(SignalledBy(effects))
Receives(r, v) == delivered'[r] = Append(delivered[r], v)

\* C4: a positive signal for id (the item came from storage or from a peer)
\* removes the outer entry of id and delivers the one Some(result) to every
\* responder of every bucket under id, whichever peer the call names.
C4_PositiveDrainsAll ==
    [][StorageHit \/ PeerHit =>
        LET id == IF PeerHit THEN ItemId(last'.event.item)
                  ELSE ItemId(Unwrap(last'.event.maybe_item))
            out == last'.effects
        IN  /\ id \notin DOMAIN responders'
            /\ SignalledBy(out) = Under(responders, id)
            /\ OncePerResponder(out)
            /\ \A i \in DOMAIN out.signalled :
                 IsSome(out.signalled[i].value) /\ AllValues(out, out.signalled[i].value)
            /\ \A r \in Under(responders, id) : Len(delivered'[r]) = Len(delivered[r]) + 1
      ]_vars

\* A positive signal naming a peer with no bucket under the id resolved the
\* responders of the other peer.
C4_Witness ==
    /\ last.event.kind = "GotRemotely"
    /\ last.event.source.tag = "Peer"
    /\ last.effects.signalled # <<>>
    /\ \A r \in SignalledBy(last.effects) : reg[r].peer # last.event.source.peer

\* C5: a negative resolution for (id, peer) delivers None to exactly the
\* responders of table[id][peer] and removes that bucket; the other buckets
\* under id keep their responders, in order, and none of those is signalled.
C5_NegativeDrainsBucketOnly ==
    [][\/ last'.event.kind \in {"AbsentRemotely", "TimeoutPeer"}
       \/ (StorageMiss /\ ~last'.event.ok)
       =>
        LET id == last'.event.id
            peer == last'.event.peer
            out == last'.effects
        IN  /\ SignalledBy(out) = Range(Bucket(responders, id, peer))
            /\ OncePerResponder(out)
            /\ AllValues(out, None)
            /\ \A r \in Range(Bucket(responders, id, peer)) : Receives(r, None)
            /\ BucketPeers(responders', id) = BucketPeers(responders, id) \ {peer}
            /\ \A q \in BucketPeers(responders, id) \ {peer} :
                 /\ Bucket(responders', id, q) = Bucket(responders, id, q)
                 /\ \A r \in Range(Bucket(responders, id, q)) : delivered'[r] = delivered[r]
      ]_vars

\* After Fetch{H1,P1,R1}, Fetch{H1,P2,R2} and TimeoutPeer{H1,P1}: R1 has None
\* and the table is {H1 -> {P2 -> [R2]}}.
C5_Witness ==
    /\ last.event = [kind |-> "TimeoutPeer", id |-> "H1", peer |-> "P1"]
    /\ reg = <<[id |-> "H1", peer |-> "P1"], [id |-> "H1", peer |-> "P2"]>>
    /\ delivered = <<<<None>>, <<>>>> \o [i \in 1..(MaxResp - 2) |-> <<>>]
    /\ DOMAIN responders = {"H1"}
    /\ DOMAIN responders["H1"] = {"P2"}
    /\ responders["H1"]["P2"] = <<2>>

\* C6: on a storage hit every responder under the event's id, in every
\* bucket, receives Some(FromStorage(item)), the outer entry of id is dropped,
\* no GetRequest is sent and no timer is armed.
C6_StorageHit ==
    [][StorageHit =>
        LET id == last'.event.id
            item == Unwrap(last'.event.maybe_item)
            out == last'.effects
        IN  /\ SignalledBy(out) = Under(responders, id)
            /\ \A r \in Under(responders, id) : Receives(r, Some(FromStorage(item)))
            /\ id \notin DOMAIN responders'
            /\ out.sent = <<>>
            /\ out.armed = <<>>
            /\ timers' = timers
      ]_vars

\* A storage hit resolved responders in the buckets of both peers.
C6_Witness ==
    /\ last.event.kind = "GetFromStorageResult"
    /\ IsSome(last.event.maybe_item)
    /\ {reg[r].peer : r \in SignalledBy(last.effects)} = Peers
    /\ \A r \in SignalledBy(last.effects) :
         delivered[r] = <<Some(FromStorage(Unwrap(last.event.maybe_item)))>>

\* C7: on GotRemotely from Peer(p) every responder pending under item.id(),
\* whichever peer it nominated, receives Some(FromPeer(item, p)) and the
\* outer entry of item.id() is removed.
C7_PeerHit ==
    [][PeerHit =>
        LET item == last'.event.item
            p == last'.event.source.peer
        IN  /\ \A r \in Under(responders, ItemId(item)) : Receives(r, Some(FromPeer(item, p)))
            /\ \A r \in Responders :
                 Registered(r) /\ ~Signalled(r) /\ reg[r].id = ItemId(item)
                     => Receives(r, Some(FromPeer(item, p)))
            /\ ItemId(item) \notin DOMAIN responders'
      ]_vars

\* Responders that nominated P1 and P2 both received the item P2 supplied.
C7_Witness ==
    /\ last.event.kind = "GotRemotely"
    /\ last.event.source = SourcePeer("P2")
    /\ \E r1, r2 \in Responders :
         /\ Registered(r1) /\ Registered(r2)
         /\ reg[r1].peer = "P1" /\ reg[r2].peer = "P2"
         /\ delivered[r1] = <<Some(FromPeer(last.event.item, "P2"))>>
         /\ delivered[r2] = <<Some(FromPeer(last.event.item, "P2"))>>

\* C8: handling Fetch appends the responder to table[id][peer] and issues one
\* storage query for (id, peer), sends nothing and arms no timer; a GetRequest
\* for id goes to peer only in the handler of GetFromStorageResult{id, peer, None}.
C8_StorageFirst ==
    [][/\ last'.event.kind = "Fetch" =>
            LET e == last'.event
            IN  /\ Bucket(responders', e.id, e.peer)
                     = Append(Bucket(responders, e.id, e.peer), e.responder)
                /\ last'.effects.queried = <<<<e.id, e.peer>>>>
                /\ queries' = [queries EXCEPT ![<<e.id, e.peer>>] = @ + 1]
                /\ last'.effects.sent = <<>>
                /\ last'.effects.armed = <<>>
                /\ timers' = timers
       /\ last'.effects.sent # <<>> =>
            /\ StorageMiss
            /\ \A i \in DOMAIN last'.effects.sent :
                 last'.effects.sent[i] = <<last'.event.peer, last'.event.id>>
      ]_vars

\* A Fetch joined a bucket whose peer request is already under way.
C8_Witness ==
    /\ last.event.kind = "Fetch"
    /\ Len(Bucket(responders, last.event.id, last.event.peer)) = 2
    /\ timers[<<last.event.id, last.event.peer>>] = 1
    /\ queries[<<last.event.id, last.event.peer>>] = 1

\* C9: on a storage miss whose GetRequest is constructed, one GetRequest for
\* id goes to peer, one timer for (id, peer) is armed, no responder is
\* signalled and the table is unchanged.
C9_StorageMiss ==
    [][StorageMiss /\ last'.event.ok =>
        LET e == last'.event
        IN  /\ last'.effects.sent = <<<<e.peer, e.id>>>>
            /\ last'.effects.armed = <<<<e.id, e.peer>>>>
            /\ timers' = [timers EXCEPT ![<<e.id, e.peer>>] = @ + 1]
            /\ last'.effects.signalled = <<>>
            /\ delivered' = delivered
            /\ responders' = responders
      ]_vars

\* A storage miss with a responder waiting in the bucket.
C9_Witness ==
    /\ last.event.kind = "GetFromStorageResult"
    /\ ~IsSome(last.event.maybe_item)
    /\ last.event.ok
    /\ Bucket(responders, last.event.id, last.event.peer) # <<>>
    /\ timers[<<last.event.id, last.event.peer>>] = 1

\* C10: when the GetRequest cannot be constructed, the responders of
\* table[id][peer], and only those, are signalled None; nothing is sent and
\* no timer is armed.
C10_ConstructionFailure ==
    [][StorageMiss /\ ~last'.event.ok =>
        LET e == last'.event
            bucket == Range(Bucket(responders, e.id, e.peer))
        IN  /\ \A r \in bucket : Receives(r, None)
            /\ \A r \in Responders \ bucket : delivered'[r] = delivered[r]
            /\ last'.effects.sent = <<>>
            /\ last'.effects.armed = <<>>
            /\ timers' = timers
      ]_vars

\* A construction failure resolved one bucket while another bucket of the
\* same id stays pending.
C10_Witness ==
    /\ last.event.kind = "GetFromStorageResult"
    /\ ~IsSome(last.event.maybe_item)
    /\ ~last.event.ok
    /\ last.effects.signalled # <<>>
    /\ last.event.id \in DOMAIN responders

----------------------------------------------------------------------------
\* A negative resolution: AbsentRemotely, TimeoutPeer or a GetRequest that
\* could not be constructed.
NegativeStep ==
    \/ last'.event.kind \in {"AbsentRemotely", "TimeoutPeer"}
    \/ (StorageMiss /\ ~last'.event.ok)

\* C11: signal(id, None, peer) applied when table[id][peer] is absent signals
\* no responder, returns no effect and leaves the table as it was.
C11_NegativeIdempotent ==
    [][NegativeStep /\ last'.event.peer \notin BucketPeers(responders, last'.event.id) =>
        /\ last'.effects = NoEffects
        /\ responders' = responders
        /\ delivered' = delivered
        /\ queries' = [queries EXCEPT ![<<last'.event.id, last'.event.peer>>] =
                         IF StorageMiss THEN @ - 1 ELSE @]
      ]_vars

\* The timer of a bucket that was already signalled None fired while another
\* bucket of the same id was still waiting.
C11_Witness ==
    /\ last.event.kind = "TimeoutPeer"
    /\ last.effects = NoEffects
    /\ last.event.id \in DOMAIN responders
    /\ \E r \in Responders :
         /\ Registered(r)
         /\ reg[r] = [id |-> last.event.id, peer |-> last.event.peer]
         /\ delivered[r] = <<None>>

\* C12: GotRemotely from Source::Client signals no responder, returns no
\* effect and leaves the table unchanged.
C12_ClientIsNoOp ==
    [][last'.event.kind = "GotRemotely" /\ last'.event.source.tag = "Client" =>
        /\ last'.effects = NoEffects
        /\ responders' = responders
        /\ delivered' = delivered
        /\ queries' = queries
        /\ timers' = timers
      ]_vars

\* A client supplied an item that responders are waiting for, and they still wait.
C12_Witness ==
    /\ last.event.kind = "GotRemotely"
    /\ last.event.source = SourceClient
    /\ Under(responders, ItemId(last.event.item)) # {}

\* C13: within a bucket responders are kept, and signalled, in the order in
\* which their Fetch events were handled (responders are numbered in that order).
C13_Fifo ==
    /\ \A id \in Ids, p \in Peers :
         LET b == Bucket(responders, id, p)
         IN  \A i, j \in DOMAIN b : i < j => b[i] < b[j]
    /\ LET s == last.effects.signalled
       IN  \A i, j \in DOMAIN s :
             i < j /\ reg[s[i].responder] = reg[s[j].responder]
                 => s[i].responder < s[j].responder

\* Two responders of one bucket were signalled None by one timeout.
C13_Witness ==
    /\ last.event.kind = "TimeoutPeer"
    /\ Len(last.effects.signalled) = 2
    /\ reg[last.effects.signalled[1].responder] = reg[last.effects.signalled[2].responder]

\* C14: from the table a step found, the handlers of AbsentRemotely{id, peer}
\* and of TimeoutPeer{id, peer} give the same table, signal the same
\* responders and deliver the same value, None.
C14_AbsentLikeTimeout ==
    [][last'.event.kind \in {"AbsentRemotely", "TimeoutPeer"} =>
        LET e == last'.event
            absent == HandleEvent(responders,
                          [kind |-> "AbsentRemotely", id |-> e.id, peer |-> e.peer], <<>>)
            timeout == HandleEvent(responders,
                          [kind |-> "TimeoutPeer", id |-> e.id, peer |-> e.peer], <<>>)
        IN  /\ absent.responders = timeout.responders
            /\ absent.effects = timeout.effects
            /\ AllValues(absent.effects, None)
            /\ responders' = timeout.responders
            /\ last'.effects = absent.effects
      ]_vars

\* A peer disclaimed an item while the timer of that bucket was still armed.
C14_Witness ==
    /\ last.event.kind = "AbsentRemotely"
    /\ last.effects.signalled # <<>>
    /\ timers[<<last.event.id, last.event.peer>>] > 0

\* C15: once a TimeoutPeer{id, peer} has been handled, every responder
\* registered for (id, peer) so far, hence every one that was in the bucket at
\* the storage miss which armed the timer, has been signalled, and the bucket
\* is absent.
C15_TimeoutBound ==
    last.event.kind = "TimeoutPeer" =>
        /\ \A r \in Responders :
             Registered(r) /\ reg[r] = [id |-> last.event.id, peer |-> last.event.peer]
                 => Signalled(r)
        /\ last.event.peer \notin BucketPeers(responders, last.event.id)

\* The timer armed by the only storage miss of a bucket fired and signalled it.
C15_Witness ==
    /\ last.event.kind = "TimeoutPeer"
    /\ last.effects.signalled # <<>>
    /\ timers[<<last.event.id, last.event.peer>>] = 0
    /\ queries[<<last.event.id, last.event.peer>>] = 0

\* C16: two Fetch events for one (id, peer) handled one after the other put
\* their responders in the same bucket, and the responders of a bucket are
\* resolved in the same step with the same value.
C16_SamePayload ==
    [][/\ \A id \in Ids, p \in Peers :
            \A r1, r2 \in Range(Bucket(responders, id, p)) : delivered'[r1] = delivered'[r2]
       /\ (/\ last.event.kind = "Fetch"
           /\ last'.event.kind = "Fetch"
           /\ last'.event.id = last.event.id
           /\ last'.event.peer = last.event.peer)
          => /\ {last.event.responder, last'.event.responder}
                    \subseteq Range(Bucket(responders', last'.event.id, last'.event.peer))
             /\ queries[<<last.event.id, last.event.peer>>] > 0
      ]_vars

\* Two responders fetched for the same (id, peer) were resolved by one event
\* with one and the same item.
C16_Witness ==
    /\ Len(reg) >= 2
    /\ reg[1] = reg[2]
    /\ SignalledBy(last.effects) = {1, 2}
    /\ delivered[1] = delivered[2]
    /\ IsSome(delivered[1][1])

\* C17: a TimeoutPeer{id, peer} whose timer was armed before the bucket of
\* (id, peer) was drained is a no-op: it signals no responder, so none that a
\* later Fetch{id, peer} registered.
C17_StaleTimerIsNoOp ==
    [][last'.event.kind = "TimeoutPeer"
         /\ stale[<<last'.event.id, last'.event.peer>>] > 0
       => /\ last'.effects.signalled = <<>>
          /\ responders' = responders
      ]_vars

\* C18: when GotRemotely{item, Peer(p)} is handled after bucket (item.id(), p)
\* was drained with None, the responders still waiting under item.id()
\* receive Some(FromPeer(item, p)) and no other responder is signalled.
C18_PeerHitAfterTimeout ==
    [][/\ PeerHit
       /\ last'.event.source.peer \notin BucketPeers(responders, ItemId(last'.event.item))
       /\ \E r \in Responders :
            /\ Registered(r)
            /\ reg[r] = [id |-> ItemId(last'.event.item), peer |-> last'.event.source.peer]
            /\ delivered[r] = <<None>>
       =>
        LET item == last'.event.item
            p == last'.event.source.peer
        IN  \A r \in Responders :
              IF Registered(r) /\ reg[r].id = ItemId(item) /\ ~Signalled(r)
              THEN Receives(r, Some(FromPeer(item, p)))
              ELSE delivered'[r] = delivered[r]
      ]_vars

\* R1, fetched from P1, was signalled None; then P1 supplied the item and R2,
\* fetched from P2, received it.
C18_Witness ==
    /\ last.event.kind = "GotRemotely"
    /\ last.event.source = SourcePeer("P1")
    /\ Len(reg) >= 2
    /\ reg[1] = [id |-> ItemId(last.event.item), peer |-> "P1"]
    /\ reg[2] = [id |-> ItemId(last.event.item), peer |-> "P2"]
    /\ delivered[1] = <<None>>
    /\ delivered[2] = <<Some(FromPeer(last.event.item, "P1"))>>
    /\ SignalledBy(last.effects) = {2}

\* C19: a storage hit for an id the table has no entry for signals nobody and
\* leaves the table unchanged, and every Fetch issues a storage query of its
\* own, also when a query for the same (id, peer) is already pending.
C19_DuplicateStorageResults ==
    [][/\ StorageHit /\ last'.event.id \notin DOMAIN responders =>
            /\ last'.effects = NoEffects
            /\ responders' = responders
            /\ delivered' = delivered
       /\ last'.event.kind = "Fetch" =>
            /\ Len(last'.effects.queried) = 1
            /\ queries'[<<last'.event.id, last'.event.peer>>]
                 = queries[<<last'.event.id, last'.event.peer>>] + 1
      ]_vars

\* The second of two storage hits for one id found the table already drained
\* by the first.
C19_Witness ==
    /\ last.event.kind = "GetFromStorageResult"
    /\ IsSome(last.event.maybe_item)
    /\ last.effects.signalled = <<>>
    /\ Len(reg) >= 2
    /\ reg[1] = reg[2]
    /\ reg[1].id = last.event.id
    /\ delivered[1] = <<Some(FromStorage(Unwrap(last.event.maybe_item)))>>
    /\ delivered[2] = delivered[1]

\* The storage queries for the (id, peer) of responder r issued by its own
\* Fetch or a later one.
QueriesSince(r) ==
    Cardinality({r2 \in Responders : r <= r2 /\ r2 <= Len(reg) /\ reg[r2] = reg[r]})

\* C20: a responder is signalled None only once the storage query issued by
\* its own Fetch has been answered (storage answers the queries for one
\* (id, peer) in the order they were issued).
C20_StorageBeforeNone ==
    [][\A r \in Responders :
          Registered(r) /\ delivered[r] = <<>> /\ delivered'[r] = <<None>>
              => queries'[<<reg[r].id, reg[r].peer>>] < QueriesSince(r)
      ]_vars

----------------------------------------------------------------------------
\* The id an event concerns.
EventId(event) == IF event.kind = "GotRemotely" THEN ItemId(event.item) ELSE event.id

\* C21: an item a responder receives, from storage or from a peer, has the
\* id under which the responder was registered.
C21_IdentifierConsistency ==
    \A r \in Responders :
        Registered(r) =>
            \A i \in DOMAIN delivered[r] :
                IsSome(delivered[r][i]) =>
                    ItemId(Unwrap(delivered[r][i]).item) = reg[r].id

\* Responders of two ids were resolved, one from storage and one by a peer.
C21_Witness ==
    /\ Len(reg) >= 2
    /\ reg[1].id # reg[2].id
    /\ \E i \in DOMAIN delivered[1] :
         IsSome(delivered[1][i]) /\ Unwrap(delivered[1][i]).tag = "FromStorage"
    /\ \E i \in DOMAIN delivered[2] :
         IsSome(delivered[2][i]) /\ Unwrap(delivered[2][i]).tag = "FromPeer"

\* C22: when no storage query is unanswered and no timer is armed, the
\* responder table is empty.
C22_Quiescence ==
    (\A k \in Keys : queries[k] = 0 /\ timers[k] = 0) => responders = EmptyMap

\* Two fetches from different buckets have run their course, one of them
\* ending in None, and nothing is outstanding.
C22_Witness ==
    /\ \A k \in Keys : queries[k] = 0 /\ timers[k] = 0
    /\ Len(reg) = 2
    /\ reg[1] # reg[2]
    /\ delivered[1] = <<None>>
    /\ Signalled(2)

C24_UnsolicitedItemResolves ==
    [][PeerHit /\ tally.sent[<<ItemId(last'.event.item), last'.event.source.peer>>] = 0 =>
        LET item == last'.event.item
            p == last'.event.source.peer
        IN  /\ \A r \in Responders :
                 Registered(r) /\ ~Signalled(r) /\ reg[r].id = ItemId(item)
                     => Receives(r, Some(FromPeer(item, p)))
            /\ ItemId(item) \notin DOMAIN responders'
            /\ queries' = queries
      ]_vars

\* A peer that was never sent a request supplied the item while the storage
\* query of the responder it resolved was still unanswered.
C24_Witness ==
    /\ last.event.kind = "GotRemotely"
    /\ last.event.source.tag = "Peer"
    /\ \A k \in Keys : tally.sent[k] = 0
    /\ \E r \in SignalledBy(last.effects) :
         /\ queries[<<reg[r].id, reg[r].peer>>] > 0
         /\ delivered[r] = <<Some(FromPeer(last.event.item, last.event.source.peer))>>

\* C25: a step handling an event that concerns id leaves the entry of every
\* other id as it was and signals no responder registered under another id.
C25_IsolationAcrossIds ==
    [][last'.event.kind # "Init" =>
        \A id2 \in Ids \ {EventId(last'.event)} :
            /\ id2 \in DOMAIN responders' <=> id2 \in DOMAIN responders
            /\ id2 \in DOMAIN responders => responders'[id2] = responders[id2]
            /\ \A r \in Responders :
                 r <= Len(reg') /\ reg'[r].id = id2 => delivered'[r] = delivered[r]
            /\ \A r \in SignalledBy(last'.effects) : reg[r].id # id2
      ]_vars

\* The responder under H1 was resolved while the one under H2 stays pending.
C25_Witness ==
    /\ Len(reg) = 2
    /\ reg[1].id = "H1"
    /\ reg[2].id = "H2"
    /\ last.event.kind # "Init"
    /\ EventId(last.event) = "H1"
    /\ SignalledBy(last.effects) = {1}
    /\ responders = [H2 |-> [p \in {reg[2].peer} |-> <<2>>]]

\* C26: every bucket present in the responder table holds a responder.
C26_NoEmptyBucket ==
    \A id \in DOMAIN responders :
        \A p \in DOMAIN responders[id] : responders[id][p] # <<>>

\* One bucket of an id was removed by an absence reply and the other bucket
\* of that id still holds its responder.
C26_Witness ==
    /\ last.event.kind = "AbsentRemotely"
    /\ last.effects.signalled # <<>>
    /\ last.event.id \in DOMAIN responders
    /\ \A p \in DOMAIN responders[last.event.id] :
         p # last.event.peer /\ Len(responders[last.event.id][p]) = 1

\* C27: per (id, peer), as many timers have been armed as GetRequests have
\* been sent, and a TimeoutPeer{id, peer} is handled only after a GetRequest
\* for id was sent to peer.
C27_TimersPairedWithRequests ==
    /\ tally.armed = tally.sent
    /\ \A k \in Keys : timers[k] <= tally.armed[k]
    /\ last.event.kind = "TimeoutPeer" => tally.sent[<<last.event.id, last.event.peer>>] > 0

\* The second of two timers for one (id, peer) fired; two requests had gone out.
C27_Witness ==
    /\ last.event.kind = "TimeoutPeer"
    /\ tally.sent[<<last.event.id, last.event.peer>>] = 2
    /\ tally.armed[<<last.event.id, last.event.peer>>] = 2
    /\ timers[<<last.event.id, last.event.peer>>] = 0

\* C28: under Highway, is_valid returns false when minimum_block_time exceeds
\* maximum_round_length, and when the two are equal it returns what the other
\* checks decide.
C28_RoundLength ==
    IsSome(validity) =>
        LET valid == Unwrap(validity)
        IN  /\ (/\ chainspec.consensus_protocol = "Highway"
                /\ chainspec.minimum_block_time > chainspec.maximum_round_length)
               => valid = FALSE
            /\ (/\ chainspec.consensus_protocol = "Highway"
                /\ chainspec.minimum_block_time = chainspec.maximum_round_length)
               => valid = (/\ chainspec.largest_message_fits
                           /\ chainspec.unbonding_delay > chainspec.auction_delay
                           /\ chainspec.highway_config_is_valid
                           /\ chainspec.protocol_config_is_valid
                           /\ chainspec.core_config_is_valid
                           /\ chainspec.deploy_config_is_valid)

\* A Highway chainspec with minimum_block_time and maximum_round_length both
\* 7 ms was found valid.
C28_Witness ==
    /\ validity = Some(TRUE)
    /\ chainspec.consensus_protocol = "Highway"
    /\ chainspec.minimum_block_time = 7
    /\ chainspec.maximum_round_length = 7

====
